---- MODULE Spec2Model ----
(***************************************************************************)
(* Intent-discovery pipeline: clustering (clustering.py), the orchestrator *)
(* (main.py), the metrics evaluator (evaluate.py), the injection test      *)
(* (validation.py), the LLM report generator (llm_analyst2.py) and the     *)
(* intent-map updater (update_indent_map.py).                              *)
(*                                                                         *)
(* Conventions.  Python lists are sequences; list positions and message    *)
(* indices are 0-based in the code and kept 0-based as VALUES here (the    *)
(* index i of the code is element i+1 of a sequence).  A dict is the       *)
(* sequence of its items in insertion order.  A float holding a percentage *)
(* rounded to two decimals is the integer number of hundredths.            *)
(***************************************************************************)
EXTENDS Integers, Sequences, FiniteSets, TLC

\* ------------------------------------------------------------------ bounds
MaxN == 3          \* largest corpus of the pipeline specification
NumLabels == 3     \* label values fit_predict may return: 0 .. NumLabels-1
NumTexts == 2      \* distinct message texts
MaxSamples == 2    \* largest samples_per_cluster tried besides the default
MaxTotal == 31     \* largest corpus of the percentage specification
MaxOrig == 2       \* largest original corpus of the injection test
NumInjLabels == 2  \* label values of the injection test's clustering
MaxVectors == 3    \* largest vector set of the agglomeration specification
MaxCoord == 3      \* vector coordinates are 0 .. MaxCoord
MaxThreshold == 4  \* thresholds are 0, 0.5, ... MaxThreshold / 2
MaxLlmClusters == 2  \* largest cluster list handed to generate_reports
MaxEvalClusters == 3 \* most clusters of an artifact handed to the evaluator
MaxEvalSize == 2     \* largest cluster size of such an artifact
MaxDropped == 1      \* most messages of such an artifact in no listed cluster
MaxChanges == 2      \* most rows of the audit log handed to update_map
MaxPrimaries == 1    \* most primary intents of the original intent map

\* ------------------------------------------------------- program constants
DefaultSamples == 5   \* samples_per_cluster: int = 5
HiddenCount == 20     \* len(HIDDEN_MESSAGES)
MIN_CLUSTER_SIZE == 5

VARIABLES
    pc,                 \* position of the running script
    input_file,         \* inputs_for_assignment.json: the messages' texts
    df,                 \* the 'full_text' column of the DataFrame
    samples_per_cluster,
    clusters,           \* dict label -> indices, as items in insertion order
    pos,                \* position of the loop over clusters.items()
    cluster_summaries,
    output_file,        \* cluster_output.json: the artifact main writes
    error,              \* the exception that ended the script, or "none"
    \* get_representative_samples on a large corpus, by cluster sizes only
    pct_total,          \* len(df)
    pct_remaining,      \* messages of the clusters not yet summarized
    pct_count,          \* len(cluster_summaries)
    pct_sum,            \* sum of the 'percentage' fields appended so far
    \* validation.py: run_injection_test
    inj_pc,
    inj_file,           \* inputs_for_assignment.json: the number of messages
    original_count,     \* len(df_orig)
    is_injected,        \* df_final['is_injected'], one flag per row
    inj_clusters,       \* the dict perform_clustering returned
    inj_pos,            \* position of the loop over clusters.items()
    best_cluster_id,
    best_recall,        \* a ratio <<numerator, denominator>>
    best_precision,     \* a ratio <<numerator, denominator>>
    report,             \* what the final verdict printed
    \* clustering.py: the agglomeration behind fit_predict, run on the same
    \* vectors under two thresholds
    ward_pc,
    vectors,            \* the embeddings, one coordinate each
    threshold1,         \* distance_threshold of the first run, in halves
    threshold2,         \* distance_threshold of the second run, in halves
    ward_history,       \* the groups after 0, 1, 2, ... merges
    distances,          \* squared merge distances, as ratios
    count1,             \* len(clusters) of the first run
    count2,             \* len(clusters) of the second run
    \* llm_analyst2.py: generate_reports
    llm_pc,
    api_key,            \* whether GOOGLE_API_KEY is set
    llm_input,          \* data['clusters'] of cluster_output.json
    llm_clusters,       \* the clusters of size >= MIN_CLUSTER_SIZE
    llm_i,              \* position of the analysis loop
    results,
    logged,             \* cluster ids whose error was printed
    csv_file,           \* intent_audit_log.csv: the Cluster_ID of each row
    report_file,        \* final_intent_report.md: the clusters it lists
    llm_error,          \* the exception that ended the script, or "none"
    \* evaluate.py: calculate_metrics, reading output_file
    eval_pc,
    total_messages,     \* data['total_messages']
    eval_clusters,      \* data['clusters']
    eval_labels,        \* labels: one cluster_id per representative sample
    clustered_count,
    total_clustered_volume,
    coverage_ratio,     \* a ratio <<numerator, denominator>>
    eval_error,         \* the exception that ended the script, or "none"
    \* update_indent_map.py: update_map
    map_pc,
    intent_map,         \* data['intent_mapper']
    changes,            \* the NEW / SPLIT rows of the audit log
    change_pos,         \* position of the loop over changes
    original_map,       \* the intent map before the first call
    first_result        \* the intent map the first call returned

pipeVars == <<pc, input_file, df, samples_per_cluster, clusters, pos,
              cluster_summaries, output_file, error>>

pctVars == <<pct_total, pct_remaining, pct_count, pct_sum>>

injVars == <<inj_pc, inj_file, original_count, is_injected, inj_clusters,
             inj_pos, best_cluster_id, best_recall, best_precision, report>>

wardVars == <<ward_pc, vectors, threshold1, threshold2, ward_history,
              distances, count1, count2>>

llmVars == <<llm_pc, api_key, llm_input, llm_clusters, llm_i, results,
             logged, csv_file, report_file, llm_error>>

evalVars == <<eval_pc, total_messages, eval_clusters, eval_labels,
              clustered_count, total_clustered_volume, coverage_ratio,
              eval_error>>

mapVars == <<map_pc, intent_map, changes, change_pos, original_map,
             first_result>>

vars == <<pipeVars, pctVars, injVars, wardVars, llmVars, evalVars, mapVars>>

\* A file that does not exist, and a file holding `content`.
NoFile == [exists |-> FALSE, content |-> <<>>]

File(content) == [exists |-> TRUE, content |-> content]

Min(a, b) == IF a <= b THEN a ELSE b

Range(s) == {s[i] : i \in DOMAIN s}

\* All sequences over S of length 0 .. k.
SeqsUpTo(S, k) == UNION {[1..m -> S] : m \in 0..k}

\* All orderings of the positions 1 .. k.
Perms(k) == {p \in [1..k -> 1..k] : \A i, j \in 1..k : i # j => p[i] # p[j]}

\* ------------------------------------------------- clustering.py: grouping

\* Position of `label` among the dict's keys, 0 when absent.
FindLabel(cl, label) ==
    IF \E k \in DOMAIN cl : cl[k].label = label
    THEN CHOOSE k \in DOMAIN cl : cl[k].label = label
    ELSE 0

\* if int(label) not in clusters: clusters[int(label)] = []
\* clusters[int(label)].append(idx)
InsertIndexElse(cl, label, idx) ==
    IF FindLabel(cl, label) = 0
    THEN Append(cl, [label |-> label, indices |-> <<>>])
    ELSE [cl EXCEPT ![FindLabel(cl, label)].indices = Append(@, idx)]

InsertIndex(cl, label, idx) ==
    LET withKey == IF FindLabel(cl, label) = 0
                   THEN Append(cl, [label |-> label, indices |-> <<>>])
                   ELSE cl
    IN [withKey EXCEPT ![FindLabel(withKey, label)].indices = Append(@, idx)]

\* for idx, label in enumerate(cluster_labels): ...
RECURSIVE GroupFrom(_, _, _)
GroupFrom(labels, idx, cl) ==
    IF idx >= Len(labels) THEN cl
    ELSE GroupFrom(labels, idx + 1, InsertIndex(cl, labels[idx + 1], idx))

GroupByLabel(labels) == GroupFrom(labels, 0, <<>>)

\* AgglomerativeClustering.fit_predict: the estimator refuses fewer than two
\* samples (ValueError); otherwise it returns one integer label per vector.
FitPredictAccepts(n) == n >= 2

\* ------------------------------------- clustering.py: representative samples

\* seq[:k] for k >= 0
Slice(s, k) == SubSeq(s, 1, Min(k, Len(s)))

\* [indices[i] for i in closest_indices_local]   (local positions 1-based here)
ClosestGlobal(indices, local) == [j \in DOMAIN local |-> indices[local[j]]]

\* df.iloc[closest_indices_global]['full_text'].tolist()
TextsAt(frame, idxs) == [j \in DOMAIN idxs |-> frame[idxs[j] + 1]]

\* round(num/den, 0) of a non-negative ratio, ties to the even integer.
RoundHalfEven(num, den) ==
    LET q == num \div den
        r == num % den
    IN IF 2 * r < den THEN q
       ELSE IF 2 * r > den THEN q + 1
       ELSE IF q % 2 = 0 THEN q ELSE q + 1

PercentageTruncated(size, total) == (10000 * size) \div total

\* round((size / total) * 100, 2), in hundredths of a percent.
Percentage(size, total) == RoundHalfEven(10000 * size, total)

\* The summary of one cluster, `order` being distances.argsort().
SummaryAll(c, order, frame, spc) ==
    [cluster_id |-> c.label,
     size |-> Len(c.indices),
     percentage |-> Percentage(Len(c.indices), Len(frame)),
     representative_samples |-> TextsAt(frame, ClosestGlobal(c.indices, order))]

Summary(c, order, frame, spc) ==
    [cluster_id |-> c.label,
     size |-> Len(c.indices),
     percentage |-> Percentage(Len(c.indices), Len(frame)),
     representative_samples |->
         TextsAt(frame, ClosestGlobal(c.indices, Slice(order, spc)))]

\* list.sort(key=size, reverse=True): stable, equal sizes keep their order.
RECURSIVE InsertBySize(_, _)
InsertBySize(sorted, x) ==
    IF sorted = <<>> THEN <<x>>
    ELSE IF sorted[Len(sorted)].size >= x.size THEN Append(sorted, x)
    ELSE Append(InsertBySize(SubSeq(sorted, 1, Len(sorted) - 1), x),
                sorted[Len(sorted)])

RECURSIVE SortFrom(_, _, _)
SortFrom(s, k, acc) ==
    IF k > Len(s) THEN acc ELSE SortFrom(s, k + 1, InsertBySize(acc, s[k]))

SortBySizeAsc(s) ==
    LET d == SortFrom(s, 1, <<>>) IN [k \in DOMAIN d |-> d[Len(d) + 1 - k]]

SortBySizeDesc(s) == SortFrom(s, 1, <<>>)

\* ---------------------------------------------------------------- main.py

PctIdle ==
    /\ pct_total = 0
    /\ pct_remaining = 0
    /\ pct_count = 0
    /\ pct_sum = 0

InjIdle ==
    /\ inj_pc = "idle"
    /\ inj_file = NoFile
    /\ original_count = 0
    /\ is_injected = <<>>
    /\ inj_clusters = <<>>
    /\ inj_pos = 1
    /\ best_cluster_id = -1
    /\ best_recall = <<0, 1>>
    /\ best_precision = <<0, 1>>
    /\ report = "none"

WardIdle ==
    /\ ward_pc = "idle"
    /\ vectors = <<>>
    /\ threshold1 = 0
    /\ threshold2 = 0
    /\ ward_history = <<>>
    /\ distances = <<>>
    /\ count1 = 0
    /\ count2 = 0

LlmIdle ==
    /\ llm_pc = "idle"
    /\ api_key = FALSE
    /\ llm_input = <<>>
    /\ llm_clusters = <<>>
    /\ llm_i = 1
    /\ results = <<>>
    /\ logged = <<>>
    /\ csv_file = NoFile
    /\ report_file = NoFile
    /\ llm_error = "none"

EvalIdle ==
    /\ eval_pc = "idle"
    /\ total_messages = 0
    /\ eval_clusters = <<>>
    /\ eval_labels = <<>>
    /\ clustered_count = 0
    /\ total_clustered_volume = 0
    /\ coverage_ratio = <<0, 1>>
    /\ eval_error = "none"

MapIdle ==
    /\ map_pc = "idle"
    /\ intent_map = <<>>
    /\ changes = <<>>
    /\ change_pos = 1
    /\ original_map = <<>>
    /\ first_result = <<>>

Init ==
    /\ PctIdle
    /\ InjIdle
    /\ WardIdle
    /\ LlmIdle
    /\ MapIdle
    /\ EvalIdle
    /\ pc = "start"
    /\ input_file \in {NoFile} \cup {File(t) : t \in SeqsUpTo(1..NumTexts, MaxN)}
    /\ df = <<>>
    /\ samples_per_cluster \in (1..MaxSamples) \cup {DefaultSamples}
    /\ clusters = <<>>
    /\ pos = 1
    /\ cluster_summaries = <<>>
    /\ output_file = NoFile
    /\ error = "none"

\* load_and_preprocess_data: a missing file gives an empty DataFrame.
MainLoad ==
    /\ pc = "start"
    /\ df' = IF input_file.exists THEN input_file.content ELSE <<>>
    /\ pc' = "loaded"
    /\ UNCHANGED <<pctVars, injVars, wardVars, llmVars, evalVars,
                   mapVars>>
    /\ UNCHANGED <<input_file, samples_per_cluster, clusters, pos,
                   cluster_summaries, output_file, error>>

\* if df.empty: return
MainReturnEmpty ==
    /\ pc = "loaded"
    /\ df = <<>>
    /\ pc' = "returned"
    /\ UNCHANGED <<pctVars, injVars, wardVars, llmVars, evalVars,
                   mapVars>>
    /\ UNCHANGED <<input_file, df, samples_per_cluster, clusters, pos,
                   cluster_summaries, output_file, error>>

\* vectors = generate_embeddings(...); raw_clusters = perform_clustering(...)
PerformClustering ==
    /\ pc = "loaded"
    /\ df # <<>>
    /\ IF FitPredictAccepts(Len(df))
       THEN \E cluster_labels \in [1..Len(df) -> 0..(NumLabels - 1)] :
               /\ clusters' = GroupByLabel(cluster_labels)
               /\ pc' = "clustered"
               /\ error' = error
       ELSE /\ pc' = "failed"
            /\ error' = "ValueError"
            /\ clusters' = clusters
    /\ pos' = 1
    /\ UNCHANGED <<pctVars, injVars, wardVars, llmVars, evalVars,
                   mapVars>>
    /\ UNCHANGED <<input_file, df, samples_per_cluster, cluster_summaries,
                   output_file>>

\* One pass of `for label, indices in clusters.items()`.
SummarizeCluster ==
    /\ pc = "clustered"
    /\ pos <= Len(clusters)
    /\ \E order \in Perms(Len(clusters[pos].indices)) :
          cluster_summaries' =
              Append(cluster_summaries,
                     Summary(clusters[pos], order, df, samples_per_cluster))
    /\ pos' = pos + 1
    /\ UNCHANGED <<pctVars, injVars, wardVars, llmVars, evalVars,
                   mapVars>>
    /\ UNCHANGED <<pc, input_file, df, samples_per_cluster, clusters,
                   output_file, error>>

\* cluster_summaries.sort(...); return cluster_summaries
ReturnSummaries ==
    /\ pc = "clustered"
    /\ pos > Len(clusters)
    /\ cluster_summaries' = SortBySizeDesc(cluster_summaries)
    /\ pc' = "summarized"
    /\ UNCHANGED <<pctVars, injVars, wardVars, llmVars, evalVars,
                   mapVars>>
    /\ UNCHANGED <<input_file, df, samples_per_cluster, clusters, pos,
                   output_file, error>>

\* json.dump(output_data, f)
MainSave ==
    /\ pc = "summarized"
    /\ output_file' = File([total_messages |-> Len(df),
                            clusters |-> cluster_summaries])
    /\ pc' = "saved"
    /\ UNCHANGED <<pctVars, injVars, wardVars, llmVars, evalVars,
                   mapVars>>
    /\ UNCHANGED <<input_file, df, samples_per_cluster, clusters, pos,
                   cluster_summaries, error>>

Next ==
    \/ MainLoad
    \/ MainReturnEmpty
    \/ PerformClustering
    \/ SummarizeCluster
    \/ ReturnSummaries
    \/ MainSave

Spec == Init /\ [][Next]_vars

\* --------------------------- clustering.py: percentages of a large corpus

PipeIdle ==
    /\ pc = "idle"
    /\ input_file = NoFile
    /\ df = <<>>
    /\ samples_per_cluster = DefaultSamples
    /\ clusters = <<>>
    /\ pos = 1
    /\ cluster_summaries = <<>>
    /\ output_file = NoFile
    /\ error = "none"

InitPct ==
    /\ PipeIdle
    /\ EvalIdle
    /\ InjIdle
    /\ WardIdle
    /\ LlmIdle
    /\ MapIdle
    /\ pct_total \in 1..MaxTotal
    /\ pct_remaining = pct_total
    /\ pct_count = 0
    /\ pct_sum = 0

\* One pass of the loop over clusters.items() for a cluster of `size`
\* members: the summary appended carries round((size / len(df)) * 100, 2).
PctSummarize ==
    /\ pct_remaining > 0
    /\ \E size \in 1..pct_remaining :
          /\ pct_sum' = pct_sum + Percentage(size, pct_total)
          /\ pct_remaining' = pct_remaining - size
    /\ pct_count' = pct_count + 1
    /\ UNCHANGED <<pct_total, pipeVars, injVars, wardVars, llmVars, evalVars,
                   mapVars>>

NextPct == PctSummarize

SpecPct == InitPct /\ [][NextPct]_vars

\* ------------------------------------------ validation.py: injection test

\* A ratio num/den of two counts, as Python's float division gives it.
Ratio(num, den) == <<num, den>>

\* r > a/b, r == 1.0
RatioGreater(r, a, b) == r[1] * b > a * r[2]

RatioIsOne(r) == r[1] = r[2]

\* cluster_rows['is_injected'].sum()
InjectedCount(indices, flags) ==
    Cardinality({j \in DOMAIN indices : flags[indices[j] + 1]})

\* if recall > 0.5
RecallBarInclusive(recall) == ~RatioGreater(<<1, 2>>, recall[1], recall[2])

RecallBar(recall) == RatioGreater(recall, 1, 2)

\* if best_cluster_id != -1
HasCandidateTruthy(id) == id # 0

HasCandidate(id) == id # -1

\* The three-way verdict printed on success.
Verdict(recall, precision) ==
    IF RatioIsOne(recall) /\ RatioIsOne(precision) THEN "PERFECT"
    ELSE IF RatioGreater(recall, 8, 10) THEN "STRONG"
    ELSE "PASSABLE"

\* The label sequences tried for n rows: the rows of either block (original,
\* injected) are interchangeable to the test, which reads only per-cluster
\* counts of the flag, so each block is labelled in runs; `ids` names the
\* runs' labels in any order.
RunLabel(i, cuts) == 1 + Cardinality({j \in DOMAIN cuts : cuts[j] < i})

CutsOf(len) ==
    {c \in [1..(NumInjLabels - 1) -> 0..len] :
         \A j \in 1..(NumInjLabels - 2) : c[j] <= c[j + 1]}

InjLabelings(orig) ==
    {[i \in 1..(orig + HiddenCount) |->
          IF i <= orig THEN ids[RunLabel(i, co)] - 1
          ELSE ids[RunLabel(i - orig, ci)] - 1] :
     ids \in Perms(NumInjLabels), co \in CutsOf(orig), ci \in CutsOf(HiddenCount)}

InitInj ==
    /\ PipeIdle
    /\ EvalIdle
    /\ PctIdle
    /\ WardIdle
    /\ LlmIdle
    /\ MapIdle
    /\ inj_pc = "start"
    /\ inj_file \in {NoFile} \cup {File(k) : k \in 0..MaxOrig}
    /\ original_count = 0
    /\ is_injected = <<>>
    /\ inj_clusters = <<>>
    /\ inj_pos = 1
    /\ best_cluster_id = -1
    /\ best_recall = <<0, 1>>
    /\ best_precision = <<0, 1>>
    /\ report = "none"

\* df_orig, _ = load_and_preprocess_data(ORIGINAL_FILE): a missing file
\* gives an empty DataFrame.
InjLoad ==
    /\ inj_pc = "start"
    /\ original_count' = IF inj_file.exists THEN inj_file.content ELSE 0
    /\ inj_pc' = "loaded"
    /\ UNCHANGED <<inj_file, is_injected, inj_clusters, inj_pos,
                   best_cluster_id, best_recall, best_precision, report,
                   pipeVars, pctVars, wardVars, llmVars, evalVars,
                   mapVars>>

\* df_final = concat([df_orig, df_injected]); is_injected filled with False
InjMerge ==
    /\ inj_pc = "loaded"
    /\ is_injected' = [i \in 1..(original_count + HiddenCount) |->
                           i > original_count]
    /\ inj_pc' = "merged"
    /\ UNCHANGED <<inj_file, original_count, inj_clusters, inj_pos,
                   best_cluster_id, best_recall, best_precision, report,
                   pipeVars, pctVars, wardVars, llmVars, evalVars,
                   mapVars>>

\* clusters = perform_clustering(vectors, distance_threshold=1.5)
InjCluster ==
    /\ inj_pc = "merged"
    /\ IF FitPredictAccepts(Len(is_injected))
       THEN \E cluster_labels \in InjLabelings(original_count) :
               /\ inj_clusters' = GroupByLabel(cluster_labels)
               /\ inj_pc' = "analyze"
       ELSE /\ inj_clusters' = inj_clusters
            /\ inj_pc' = "failed"
    /\ UNCHANGED <<inj_file, original_count, is_injected, inj_pos,
                   best_cluster_id, best_recall, best_precision, report,
                   pipeVars, pctVars, wardVars, llmVars, evalVars,
                   mapVars>>

\* One pass of `for c_id, indices in clusters.items()`.
InjAnalyze ==
    /\ inj_pc = "analyze"
    /\ inj_pos <= Len(inj_clusters)
    /\ LET c_id == inj_clusters[inj_pos].label
           indices == inj_clusters[inj_pos].indices
           injected_count == InjectedCount(indices, is_injected)
           total_in_cluster == Len(indices)
           recall == Ratio(injected_count, HiddenCount)
           precision == Ratio(injected_count, total_in_cluster)
       IN IF RecallBar(recall)
          THEN /\ best_cluster_id' = c_id
               /\ best_recall' = recall
               /\ best_precision' = precision
          ELSE UNCHANGED <<best_cluster_id, best_recall, best_precision>>
    /\ inj_pos' = inj_pos + 1
    /\ UNCHANGED <<inj_pc, inj_file, original_count, is_injected,
                   inj_clusters, report, pipeVars, pctVars, wardVars, llmVars, evalVars,
                   mapVars>>

\* 6. Final Verdict
InjVerdict ==
    /\ inj_pc = "analyze"
    /\ inj_pos > Len(inj_clusters)
    /\ report' = IF HasCandidate(best_cluster_id)
                 THEN Verdict(best_recall, best_precision)
                 ELSE "FAILURE"
    /\ inj_pc' = "done"
    /\ UNCHANGED <<inj_file, original_count, is_injected, inj_clusters,
                   inj_pos, best_cluster_id, best_recall, best_precision,
                   pipeVars, pctVars, wardVars, llmVars, evalVars,
                   mapVars>>

NextInj ==
    \/ InjLoad
    \/ InjMerge
    \/ InjCluster
    \/ InjAnalyze
    \/ InjVerdict

SpecInj == InitInj /\ [][NextInj]_vars

\* ------------------- clustering.py: AgglomerativeClustering(ward, threshold)

RECURSIVE SumOver(_, _)
SumOver(group, vecs) ==
    IF group = {} THEN 0
    ELSE LET i == CHOOSE i \in group : TRUE
         IN vecs[i + 1] + SumOver(group \ {i}, vecs)

\* Squared Ward distance between groups a and b:
\* 2|a||b| / (|a|+|b|) * ||mean(a) - mean(b)||^2, as a ratio.
WardDistanceSq(a, b, vecs) ==
    LET na == Cardinality(a)
        nb == Cardinality(b)
        diff == SumOver(a, vecs) * nb - SumOver(b, vecs) * na
    IN <<2 * diff * diff, na * nb * (na + nb)>>

RatioLeq(r, q) == r[1] * q[2] <= q[1] * r[2]

Pairs(groups) == {ab \in groups \X groups : ab[1] # ab[2]}

\* The pairs of least merge cost.
CheapestPairs(groups, vecs) ==
    {ab \in Pairs(groups) :
        \A cd \in Pairs(groups) :
            RatioLeq(WardDistanceSq(ab[1], ab[2], vecs),
                     WardDistanceSq(cd[1], cd[2], vecs))}

\* n_clusters_ = count_nonzero(distances_ >= distance_threshold) + 1,
\* the threshold t being h/2: d >= t iff 4 d^2 >= h^2.
ClusterCountBelow(dists, h) ==
    Cardinality({k \in DOMAIN dists : 4 * dists[k][1] <= h * h * dists[k][2]}) + 1

ClusterCount(dists, h) ==
    Cardinality({k \in DOMAIN dists : 4 * dists[k][1] >= h * h * dists[k][2]}) + 1

\* The labels of the tree cut into k groups: the groups that existed when k
\* were left, numbered by their least member.
CutLabels(history, k, n) ==
    LET groups == history[n - k + 1]
        least(g) == CHOOSE i \in g : \A j \in g : i <= j
        groupOf(i) == CHOOSE g \in groups : i \in g
    IN [i \in 1..n |->
           Cardinality({g \in groups : least(g) < least(groupOf(i - 1))})]

InitWard ==
    /\ PipeIdle
    /\ EvalIdle
    /\ PctIdle
    /\ InjIdle
    /\ LlmIdle
    /\ MapIdle
    /\ ward_pc = "merge"
    /\ vectors \in UNION {[1..n -> 0..MaxCoord] : n \in 2..MaxVectors}
    /\ threshold1 \in 0..MaxThreshold
    /\ threshold2 \in 0..MaxThreshold
    /\ threshold1 < threshold2
    /\ ward_history = << {{i} : i \in 0..(Len(vectors) - 1)} >>
    /\ distances = <<>>
    /\ count1 = 0
    /\ count2 = 0

\* One step of the agglomeration: the cheapest pair of groups is merged and
\* its distance recorded (the full tree is built when a threshold is given).
WardMerge ==
    /\ ward_pc = "merge"
    /\ LET groups == ward_history[Len(ward_history)]
       IN /\ Cardinality(groups) > 1
          /\ \E ab \in CheapestPairs(groups, vectors) :
                /\ ward_history' =
                       Append(ward_history,
                              (groups \ {ab[1], ab[2]}) \cup {ab[1] \cup ab[2]})
                /\ distances' =
                       Append(distances, WardDistanceSq(ab[1], ab[2], vectors))
    /\ UNCHANGED <<ward_pc, vectors, threshold1, threshold2, count1, count2,
                   pipeVars, pctVars, injVars, llmVars, evalVars,
                   mapVars>>

\* The tree is cut at each threshold and perform_clustering groups the labels.
WardCut ==
    /\ ward_pc = "merge"
    /\ Cardinality(ward_history[Len(ward_history)]) = 1
    /\ count1' = Len(GroupByLabel(
                     CutLabels(ward_history, ClusterCount(distances, threshold1),
                               Len(vectors))))
    /\ count2' = Len(GroupByLabel(
                     CutLabels(ward_history, ClusterCount(distances, threshold2),
                               Len(vectors))))
    /\ ward_pc' = "done"
    /\ UNCHANGED <<vectors, threshold1, threshold2, ward_history, distances,
                   pipeVars, pctVars, injVars, llmVars, evalVars,
                   mapVars>>

NextWard ==
    \/ WardMerge
    \/ WardCut

SpecWard == InitWard /\ [][NextWard]_vars

\* ---------------------------------------- llm_analyst2.py: generate_reports

AnalysisFields == {"proposal", "intent_name", "confidence", "reasoning"}

Proposals == {"NEW", "SPLIT", "EXISTING"}

\* What one pass of the try block can meet: generate_content raising, a
\* response json.loads rejects, a JSON value that is no object (the metadata
\* assignment raises), or an object holding some of the four fields.
Responses ==
    {[kind |-> k, fields |-> {}, proposal |-> "NEW"] :
         k \in {"raise", "invalid_json", "not_object"}}
    \cup {[kind |-> "object", fields |-> AnalysisFields \ miss, proposal |-> p] :
              miss \in {{}} \cup {{f} : f \in AnalysisFields}, p \in Proposals}

\* [c for c in data['clusters'] if c['size'] >= MIN_CLUSTER_SIZE]
RECURSIVE FilterBySize(_)
FilterBySize(cs) ==
    IF cs = <<>> THEN <<>>
    ELSE IF cs[1].size >= MIN_CLUSTER_SIZE
         THEN <<cs[1]>> \o FilterBySize(Tail(cs))
         ELSE FilterBySize(Tail(cs))

\* priority_order.get(x['proposal'], 3)
Priority(res) ==
    IF res.proposal = "NEW" THEN 0
    ELSE IF res.proposal = "SPLIT" THEN 1
    ELSE IF res.proposal = "EXISTING" THEN 2
    ELSE 3

\* results.sort(key=priority): stable.
RECURSIVE InsertByPriority(_, _)
InsertByPriority(sorted, x) ==
    IF sorted = <<>> THEN <<x>>
    ELSE IF Priority(sorted[Len(sorted)]) <= Priority(x) THEN Append(sorted, x)
    ELSE Append(InsertByPriority(SubSeq(sorted, 1, Len(sorted) - 1), x),
                sorted[Len(sorted)])

RECURSIVE SortByPriorityFrom(_, _, _)
SortByPriorityFrom(s, k, acc) ==
    IF k > Len(s) THEN acc
    ELSE SortByPriorityFrom(s, k + 1, InsertByPriority(acc, s[k]))

\* The rows written before the first result that lacks a field (all of them
\* when none does).
RECURSIVE RowsWritten(_)
RowsWritten(rs) ==
    IF rs = <<>> THEN <<>>
    ELSE IF rs[1].fields # AnalysisFields THEN <<>>
    ELSE <<rs[1].cluster_id>> \o RowsWritten(Tail(rs))

InitLlm ==
    /\ PipeIdle
    /\ EvalIdle
    /\ PctIdle
    /\ InjIdle
    /\ WardIdle
    /\ MapIdle
    /\ llm_pc = "start"
    /\ api_key \in BOOLEAN
    /\ llm_input \in
           UNION {{[k \in 1..m |-> [cluster_id |-> k - 1, size |-> sz[k]]] :
                       sz \in [1..m -> {MIN_CLUSTER_SIZE - 1, MIN_CLUSTER_SIZE}]} :
                  m \in 0..MaxLlmClusters}
    /\ llm_clusters = <<>>
    /\ llm_i = 1
    /\ results = <<>>
    /\ logged = <<>>
    /\ csv_file = NoFile
    /\ report_file = NoFile
    /\ llm_error = "none"

\* model = setup_gemini(); if not model: return
LlmSetup ==
    /\ llm_pc = "start"
    /\ llm_pc' = IF api_key THEN "load" ELSE "returned"
    /\ UNCHANGED <<api_key, llm_input, llm_clusters, llm_i, results, logged,
                   csv_file, report_file, llm_error,
                   pipeVars, pctVars, injVars, wardVars, evalVars,
                   mapVars>>

\* data = json.load(f); clusters = [... if c['size'] >= MIN_CLUSTER_SIZE]
LlmLoad ==
    /\ llm_pc = "load"
    /\ llm_clusters' = FilterBySize(llm_input)
    /\ llm_pc' = "analyze"
    /\ UNCHANGED <<api_key, llm_input, llm_i, results, logged, csv_file,
                   report_file, llm_error,
                   pipeVars, pctVars, injVars, wardVars, evalVars,
                   mapVars>>

\* One pass of the analysis loop: the try block appends the parsed object
\* with its metadata; any exception inside it is printed and the loop goes on.
LlmAnalyze ==
    /\ llm_pc = "analyze"
    /\ llm_i <= Len(llm_clusters)
    /\ \E response \in Responses :
          IF response.kind = "object"
          THEN /\ results' =
                      Append(results,
                             [cluster_id |-> llm_clusters[llm_i].cluster_id,
                              size |-> llm_clusters[llm_i].size,
                              fields |-> response.fields,
                              proposal |-> IF "proposal" \in response.fields
                                           THEN response.proposal
                                           ELSE "absent"])
               /\ logged' = logged
          ELSE /\ logged' = Append(logged, llm_clusters[llm_i].cluster_id)
               /\ results' = results
    /\ llm_i' = llm_i + 1
    /\ UNCHANGED <<llm_pc, api_key, llm_input, llm_clusters, csv_file,
                   report_file, llm_error,
                   pipeVars, pctVars, injVars, wardVars, evalVars,
                   mapVars>>

\* 2. GENERATE CSV: the file is opened and the header written, then one row
\* per result; reading a field the result lacks raises KeyError, which
\* nothing catches.
LlmWriteCsv ==
    /\ llm_pc = "analyze"
    /\ llm_i > Len(llm_clusters)
    /\ csv_file' = File(RowsWritten(results))
    /\ IF \A k \in DOMAIN results : results[k].fields = AnalysisFields
       THEN /\ llm_pc' = "report"
            /\ llm_error' = llm_error
       ELSE /\ llm_pc' = "failed"
            /\ llm_error' = "KeyError"
    /\ UNCHANGED <<api_key, llm_input, llm_clusters, llm_i, results, logged,
                   report_file, pipeVars, pctVars, injVars, wardVars, evalVars,
                   mapVars>>

\* 3. GENERATE MARKDOWN REPORT: results sorted by proposal priority, written.
LlmWriteReport ==
    /\ llm_pc = "report"
    /\ results' = SortByPriorityFrom(results, 1, <<>>)
    /\ report_file' = File([k \in DOMAIN results |-> results'[k].cluster_id])
    /\ llm_pc' = "done"
    /\ UNCHANGED <<api_key, llm_input, llm_clusters, llm_i, logged, csv_file,
                   llm_error, pipeVars, pctVars, injVars, wardVars, evalVars,
                   mapVars>>

NextLlm ==
    \/ LlmSetup
    \/ LlmLoad
    \/ LlmAnalyze
    \/ LlmWriteCsv
    \/ LlmWriteReport

SpecLlm == InitLlm /\ [][NextLlm]_vars

\* ------------------------------------------ evaluate.py: calculate_metrics

SumSizesFirst(cs) == IF cs = <<>> THEN 0 ELSE cs[1].size

\* sizes = [c['size'] for c in clusters]; sum(sizes)
RECURSIVE SumSizes(_)
SumSizes(cs) == IF cs = <<>> THEN 0 ELSE cs[1].size + SumSizes(Tail(cs))

\* for c in clusters: for sample in c['representative_samples']:
\*     labels.append(c['cluster_id'])
RECURSIVE SampleLabels(_)
SampleLabels(cs) ==
    IF cs = <<>> THEN <<>>
    ELSE [j \in DOMAIN cs[1].representative_samples |-> cs[1].cluster_id]
         \o SampleLabels(Tail(cs))

\* silhouette_score needs 2 <= number of labels <= number of samples - 1 and
\* raises ValueError otherwise.
SilhouetteAccepts(ls) ==
    /\ 2 <= Cardinality(Range(ls))
    /\ Cardinality(Range(ls)) <= Len(ls) - 1

\* The cluster_output.json files handed to the evaluator on its own: the
\* summaries of up to MaxEvalClusters clusters, of a corpus that may hold
\* further messages in no listed cluster, the empty corpus included.
EvalArtifacts ==
    UNION {{[total_messages |-> SumSizes([k \in 1..m |-> [size |-> sz[k]]]) + d,
             clusters |->
                 [k \in 1..m |->
                     [cluster_id |-> k - 1,
                      size |-> sz[k],
                      percentage |->
                          Percentage(sz[k],
                                     SumSizes([i \in 1..m |-> [size |-> sz[i]]]) + d),
                      representative_samples |->
                          [j \in 1..Min(DefaultSamples, sz[k]) |-> 1]]]] :
            sz \in [1..m -> 1..MaxEvalSize], d \in 0..MaxDropped} :
           m \in 1..MaxEvalClusters}
    \cup {[total_messages |-> 0, clusters |-> <<>>]}

InitEval ==
    /\ pc = "idle"
    /\ input_file = NoFile
    /\ df = <<>>
    /\ samples_per_cluster = DefaultSamples
    /\ clusters = <<>>
    /\ pos = 1
    /\ cluster_summaries = <<>>
    /\ output_file \in {NoFile} \cup {File(a) : a \in EvalArtifacts}
    /\ error = "none"
    /\ PctIdle
    /\ InjIdle
    /\ WardIdle
    /\ LlmIdle
    /\ MapIdle
    /\ eval_pc = "start"
    /\ total_messages = 0
    /\ eval_clusters = <<>>
    /\ eval_labels = <<>>
    /\ clustered_count = 0
    /\ total_clustered_volume = 0
    /\ coverage_ratio = <<0, 1>>
    /\ eval_error = "none"

\* with open(INPUT_FILE) ...: data = json.load(f); the loop over the clusters'
\* representative samples.
EvalLoad ==
    /\ eval_pc = "start"
    /\ pc \in {"idle", "returned", "failed", "saved"}
    /\ IF output_file.exists
       THEN /\ total_messages' = output_file.content.total_messages
            /\ eval_clusters' = output_file.content.clusters
            /\ eval_labels' = SampleLabels(output_file.content.clusters)
            /\ clustered_count' = Len(SampleLabels(output_file.content.clusters))
            /\ eval_pc' = "silhouette"
            /\ eval_error' = eval_error
       ELSE /\ eval_pc' = "failed"
            /\ eval_error' = "FileNotFoundError"
            /\ UNCHANGED <<total_messages, eval_clusters, eval_labels,
                           clustered_count>>
    /\ UNCHANGED <<total_clustered_volume, coverage_ratio,
                   pipeVars, pctVars, injVars, wardVars, llmVars,
                   mapVars>>

\* sil_score = silhouette_score(embeddings, labels, metric='cosine')
EvalSilhouette ==
    /\ eval_pc = "silhouette"
    /\ IF SilhouetteAccepts(eval_labels)
       THEN /\ eval_pc' = "coverage"
            /\ eval_error' = eval_error
       ELSE /\ eval_pc' = "failed"
            /\ eval_error' = "ValueError"
    /\ UNCHANGED <<total_messages, eval_clusters, eval_labels, clustered_count,
                   total_clustered_volume, coverage_ratio,
                   pipeVars, pctVars, injVars, wardVars, llmVars,
                   mapVars>>

\* total_clustered_volume = sum(sizes)
\* coverage_ratio = (total_clustered_volume / total_messages) * 100
EvalCoverage ==
    /\ eval_pc = "coverage"
    /\ total_clustered_volume' = SumSizes(eval_clusters)
    /\ IF total_messages = 0
       THEN /\ eval_pc' = "failed"
            /\ eval_error' = "ZeroDivisionError"
            /\ coverage_ratio' = coverage_ratio
       ELSE /\ coverage_ratio' =
                   Ratio(SumSizes(eval_clusters) * 100, total_messages)
            /\ eval_pc' = "done"
            /\ eval_error' = eval_error
    /\ UNCHANGED <<total_messages, eval_clusters, eval_labels, clustered_count,
                   pipeVars, pctVars, injVars, wardVars, llmVars,
                   mapVars>>

NextEval ==
    \/ EvalLoad
    \/ EvalSilhouette
    \/ EvalCoverage

SpecEval == InitEval /\ [][NextEval]_vars

\* python main.py followed by python evaluate.py: the evaluator reads the
\* cluster_output.json that main has (or has not) written.
InitRun ==
    /\ PctIdle
    /\ InjIdle
    /\ WardIdle
    /\ LlmIdle
    /\ MapIdle
    /\ pc = "start"
    /\ input_file \in {NoFile} \cup {File(t) : t \in SeqsUpTo(1..NumTexts, MaxN)}
    /\ df = <<>>
    /\ samples_per_cluster \in (1..MaxSamples) \cup {DefaultSamples}
    /\ clusters = <<>>
    /\ pos = 1
    /\ cluster_summaries = <<>>
    /\ output_file = NoFile
    /\ error = "none"
    /\ eval_pc = "start"
    /\ total_messages = 0
    /\ eval_clusters = <<>>
    /\ eval_labels = <<>>
    /\ clustered_count = 0
    /\ total_clustered_volume = 0
    /\ coverage_ratio = <<0, 1>>
    /\ eval_error = "none"

NextRun ==
    \/ MainLoad
    \/ MainReturnEmpty
    \/ PerformClustering
    \/ SummarizeCluster
    \/ ReturnSummaries
    \/ MainSave
    \/ EvalLoad
    \/ EvalSilhouette
    \/ EvalCoverage

SpecRun == InitRun /\ [][NextRun]_vars

\* ------------------------------------- update_indent_map.py: update_map

\* A string is the sequence of its characters.
LowerChar(c) == IF c = "A" THEN "a" ELSE IF c = "B" THEN "b" ELSE c

\* str.lower()
Lower(s) == [i \in DOMAIN s |-> LowerChar(s[i])]

\* str.strip()
RECURSIVE LStrip(_)
LStrip(s) ==
    IF s # <<>> /\ s[1] = " " THEN LStrip(Tail(s)) ELSE s

RECURSIVE RStrip(_)
RStrip(s) ==
    IF s # <<>> /\ s[Len(s)] = " "
    THEN RStrip(SubSeq(s, 1, Len(s) - 1))
    ELSE s

Strip(s) == RStrip(LStrip(s))

Separator == <<" ", ">", " ">>

SeparatorAt(s, i) ==
    /\ i + Len(Separator) - 1 <= Len(s)
    /\ SubSeq(s, i, i + Len(Separator) - 1) = Separator

\* The position of the leftmost " > " of s, 0 when there is none.
FirstSeparator(s) ==
    IF \E i \in DOMAIN s : SeparatorAt(s, i)
    THEN CHOOSE i \in DOMAIN s :
             SeparatorAt(s, i) /\ \A j \in 1..(i - 1) : ~SeparatorAt(s, j)
    ELSE 0

\* " > " in full_name
HasSeparator(s) == FirstSeparator(s) # 0

\* full_name.split(" > ")
RECURSIVE Split(_)
Split(s) ==
    IF ~HasSeparator(s) THEN <<s>>
    ELSE <<SubSeq(s, 1, FirstSeparator(s) - 1)>>
         \o Split(SubSeq(s, FirstSeparator(s) + Len(Separator), Len(s)))

\* re.sub(r'[^a-z0-9\s]', '', text) on the characters used here
SlugKept == {"a", "b", " "}

RECURSIVE KeepSlugChars(_)
KeepSlugChars(s) ==
    IF s = <<>> THEN <<>>
    ELSE IF s[1] \in SlugKept THEN <<s[1]>> \o KeepSlugChars(Tail(s))
    ELSE KeepSlugChars(Tail(s))

slugify(text) ==
    LET kept == KeepSlugChars(Lower(text))
    IN [i \in DOMAIN kept |-> IF kept[i] = " " THEN "_" ELSE kept[i]]

SameNameExact(x, y) == x = y

\* a.lower() == b.lower()
SameName(x, y) == Lower(x) = Lower(y)

\* for p in intent_map: if p['primary_intent_name'].lower() ==
\* primary_name.lower(): target_primary = p; break -- the position of the
\* first match, 0 when target_primary stays None.
FindPrimary(mapper, primary_name) ==
    IF \E k \in DOMAIN mapper :
           SameName(mapper[k].primary_intent_name, primary_name)
    THEN CHOOSE k \in DOMAIN mapper :
             /\ SameName(mapper[k].primary_intent_name, primary_name)
             /\ \A j \in 1..(k - 1) :
                    ~SameName(mapper[j].primary_intent_name, primary_name)
    ELSE 0

NewPrimary(primary_name) ==
    [primary_intent_id |-> slugify(primary_name),
     primary_intent_name |-> primary_name,
     secondary_intents |-> <<>>]

\* for s in target_primary['secondary_intents']: if s['name'].lower() ==
\* secondary_name.lower(): exists = True
SecondaryExists(secondary_intents, secondary_name) ==
    \E k \in DOMAIN secondary_intents :
        SameName(secondary_intents[k].name, secondary_name)

NewEntry(secondary_name, proposal_type, reasoning) ==
    [id |-> slugify(secondary_name),
     name |-> secondary_name,
     description |-> <<proposal_type, reasoning>>,
     added_by |-> "auto_discovery_pipeline"]

\* The body of the loop for a change whose name holds " > ".
ApplyChange(mapper, change) ==
    LET parts == Split(change.Intent_Name)
        primary_name == Strip(parts[1])
        secondary_name == Strip(parts[2])
        found == FindPrimary(mapper, primary_name)
        withPrimary == IF found = 0
                       THEN Append(mapper, NewPrimary(primary_name))
                       ELSE mapper
        target == IF found = 0 THEN Len(withPrimary) ELSE found
    IN IF SecondaryExists(withPrimary[target].secondary_intents,
                          secondary_name)
       THEN withPrimary
       ELSE [withPrimary EXCEPT ![target].secondary_intents =
                Append(@, NewEntry(secondary_name, change.Proposal,
                                   change.Reasoning))]

\* Names as the model proposes them: a case variant and a padded variant of
\* one name, and another name.
RawNames == {<<"A">>, <<"a", " ">>, <<"b">>}

\* Intent_Name values: "Primary > Secondary", a name without " > ", and a
\* name with a third part.
IntentNames ==
    {p \o Separator \o s : p \in RawNames, s \in RawNames}
    \cup {<<"A">>}
    \cup {<<"A">> \o Separator \o <<"b">> \o Separator \o <<"A">>}

\* The rows load_data keeps: Proposal is NEW or SPLIT.
ChangeRows ==
    {[Intent_Name |-> n, Proposal |-> "NEW", Reasoning |-> "r"] :
        n \in IntentNames}
    \cup {[Intent_Name |-> <<"b">> \o Separator \o <<"A">>,
           Proposal |-> "SPLIT", Reasoning |-> "r"]}

MapNames == {<<"a">>, <<"B">>}

UniqueNames(names) ==
    \A i, j \in DOMAIN names : Lower(names[i]) = Lower(names[j]) => i = j

OriginalEntry(name) ==
    [id |-> slugify(name),
     name |-> name,
     description |-> <<"ORIGINAL", "r">>,
     added_by |-> "none"]

SecondaryLists ==
    {<<>>, <<OriginalEntry(<<"a">>)>>,
     <<OriginalEntry(<<"a">>), OriginalEntry(<<"B">>)>>}

\* The intent maps of inputs_for_assignment.json: no two primaries share a
\* name case-insensitively, nor do two secondary intents of one primary.
InitialMaps ==
    UNION {{[k \in DOMAIN names |->
                [primary_intent_id |-> slugify(names[k]),
                 primary_intent_name |-> names[k],
                 secondary_intents |-> secs[k]]] :
            secs \in [DOMAIN names -> SecondaryLists]} :
           names \in {ns \in SeqsUpTo(MapNames, MaxPrimaries) :
                         UniqueNames(ns)}}

InitMap ==
    /\ PipeIdle
    /\ EvalIdle
    /\ PctIdle
    /\ InjIdle
    /\ WardIdle
    /\ LlmIdle
    /\ map_pc = "first"
    /\ intent_map \in InitialMaps
    /\ original_map = intent_map
    /\ changes \in SeqsUpTo(ChangeRows, MaxChanges)
    /\ change_pos = 1
    /\ first_result = <<>>

\* A change whose Intent_Name has no " > ": printed as skipped, `continue`.
MapSkipMalformed ==
    /\ map_pc \in {"first", "second"}
    /\ change_pos <= Len(changes)
    /\ ~HasSeparator(changes[change_pos].Intent_Name)
    /\ change_pos' = change_pos + 1
    /\ UNCHANGED <<map_pc, intent_map, changes, original_map, first_result,
                   pipeVars, pctVars, injVars, wardVars, llmVars, evalVars>>

\* One pass of `for change in changes` on a well-formed name.
MapApplyChange ==
    /\ map_pc \in {"first", "second"}
    /\ change_pos <= Len(changes)
    /\ HasSeparator(changes[change_pos].Intent_Name)
    /\ intent_map' = ApplyChange(intent_map, changes[change_pos])
    /\ change_pos' = change_pos + 1
    /\ UNCHANGED <<map_pc, changes, original_map, first_result,
                   pipeVars, pctVars, injVars, wardVars, llmVars, evalVars>>

\* return data
MapReturn ==
    /\ map_pc \in {"first", "second"}
    /\ change_pos > Len(changes)
    /\ IF map_pc = "first"
       THEN /\ map_pc' = "returned"
            /\ first_result' = intent_map
       ELSE /\ map_pc' = "done"
            /\ first_result' = first_result
    /\ UNCHANGED <<intent_map, changes, change_pos, original_map,
                   pipeVars, pctVars, injVars, wardVars, llmVars, evalVars>>

\* update_map(data, changes) called once more on the data it returned, with
\* the same changes.
MapCallAgain ==
    /\ map_pc = "returned"
    /\ map_pc' = "second"
    /\ change_pos' = 1
    /\ UNCHANGED <<intent_map, changes, original_map, first_result,
                   pipeVars, pctVars, injVars, wardVars, llmVars, evalVars>>

NextMap ==
    \/ MapSkipMalformed
    \/ MapApplyChange
    \/ MapReturn
    \/ MapCallAgain

SpecMap == InitMap /\ [][NextMap]_vars

\* ------------------------------------------------------------------ claims

Clustered == pc \in {"clustered", "summarized", "saved"}

\* Every (cluster, position) slot of the mapping.
Slots ==
    UNION {{<<k, j>> : j \in DOMAIN clusters[k].indices} : k \in DOMAIN clusters}

\* C1: whenever perform_clustering has returned, the index lists of the
\* mapping partition 0..n-1: every slot holds an index of the range, and every
\* index of the range is held by exactly one slot.
C1_PartitionLaw ==
    Clustered =>
        /\ \A kj \in Slots :
               clusters[kj[1]].indices[kj[2]] \in 0..(Len(df) - 1)
        /\ \A i \in 0..(Len(df) - 1) :
               Cardinality({kj \in Slots :
                                clusters[kj[1]].indices[kj[2]] = i}) = 1

C1_Witness ==
    /\ pc = "clustered"
    /\ Len(df) = 3
    /\ Len(clusters) = 2

\* C2 as claimed: the returned summaries are in descending size order and two
\* summaries of equal size are in ascending cluster_id order.
C2_TiesAscendingId ==
    pc \in {"summarized", "saved"} =>
        \A i, j \in DOMAIN cluster_summaries :
            i < j =>
                \/ cluster_summaries[i].size > cluster_summaries[j].size
                \/ /\ cluster_summaries[i].size = cluster_summaries[j].size
                   /\ cluster_summaries[i].cluster_id
                          < cluster_summaries[j].cluster_id

\* C2 amended: the returned summaries are in descending size order and two
\* summaries of equal size are in the order in which their labels were first
\* inserted into the mapping.
C2_TiesInsertionOrder ==
    pc \in {"summarized", "saved"} =>
        /\ Len(cluster_summaries) = Len(clusters)
        /\ \A i, j \in DOMAIN cluster_summaries :
            i < j =>
                \/ cluster_summaries[i].size > cluster_summaries[j].size
                \/ /\ cluster_summaries[i].size = cluster_summaries[j].size
                   /\ FindLabel(clusters, cluster_summaries[i].cluster_id)
                          < FindLabel(clusters, cluster_summaries[j].cluster_id)

C2_Witness ==
    /\ pc = "summarized"
    /\ Len(cluster_summaries) = 3
    /\ cluster_summaries[1].size = 1
    /\ cluster_summaries[1].cluster_id > cluster_summaries[2].cluster_id

\* C3: every summary holds min(samples_per_cluster, size) samples, its size is
\* the size of the cluster of its id, and its samples are the texts of that
\* many distinct member indices of that cluster.
C3_SampleCap ==
    \A k \in DOMAIN cluster_summaries :
        LET s == cluster_summaries[k]
            c == clusters[FindLabel(clusters, s.cluster_id)]
            m == Len(s.representative_samples)
        IN /\ FindLabel(clusters, s.cluster_id) # 0
           /\ s.size = Len(c.indices)
           /\ m = Min(samples_per_cluster, s.size)
           /\ \E f \in [1..m -> Range(c.indices)] :
                  /\ \A a, b \in 1..m : a # b => f[a] # f[b]
                  /\ \A a \in 1..m : s.representative_samples[a] = df[f[a] + 1]

C3_Witness ==
    /\ pc = "summarized"
    /\ samples_per_cluster = 2
    /\ Len(cluster_summaries) = 2
    /\ cluster_summaries[1].size = 2
    /\ cluster_summaries[1].representative_samples[1]
           # cluster_summaries[1].representative_samples[2]
    /\ cluster_summaries[2].size = 1

Abs(x) == IF x < 0 THEN -x ELSE x

\* C4 as claimed: once every cluster of the partition is summarized, the sum
\* of the percentages is within 0.1 of 100.0.
C4_SumWithinTenth ==
    (pct_total > 0 /\ pct_remaining = 0) => Abs(pct_sum - 10000) <= 10

\* C4 amended: once every cluster of the partition is summarized, the sum of
\* the percentages is within 0.005 times the number of clusters of 100.0
\* (hence within 0.1 when there are at most 20 clusters).
C4_SumWithinHalfCentPerCluster ==
    (pct_total > 0 /\ pct_remaining = 0) =>
        /\ 2 * Abs(pct_sum - 10000) <= pct_count
        /\ pct_count <= 20 => Abs(pct_sum - 10000) <= 10

C4_Witness ==
    /\ pct_total = 7
    /\ pct_remaining = 0
    /\ pct_count = 7
    /\ pct_sum = 10003

\* Number of injected rows of cluster k, cluster k's size, and the clusters
\* above the recall bar, read off the partition itself.
InjOf(k) ==
    Cardinality({j \in DOMAIN inj_clusters[k].indices :
                     inj_clusters[k].indices[j] >= original_count})

SizeOf(k) == Len(inj_clusters[k].indices)

Qualifying == {k \in DOMAIN inj_clusters : 2 * InjOf(k) > HiddenCount}

\* C5: after the loop, the reported candidate is a cluster of highest recall
\* among those with recall > 0.5, with that cluster's recall and precision,
\* whatever the order of iteration; with no such cluster nothing is reported.
C5_BestIsHighestRecall ==
    inj_pc = "done" =>
        IF Qualifying = {}
        THEN /\ best_cluster_id = -1
             /\ best_recall = <<0, 1>>
             /\ best_precision = <<0, 1>>
        ELSE \E k \in Qualifying :
                /\ \A m \in Qualifying : InjOf(m) <= InjOf(k)
                /\ best_cluster_id = inj_clusters[k].label
                /\ best_recall = <<InjOf(k), HiddenCount>>
                /\ best_precision = <<InjOf(k), SizeOf(k)>>

C5_Witness ==
    /\ inj_pc = "done"
    /\ Len(inj_clusters) = 2
    /\ Qualifying = {1}
    /\ InjOf(2) > 0
    /\ best_cluster_id = inj_clusters[1].label
    /\ best_precision[1] < best_precision[2]

\* C6: FAILURE is reported exactly when no cluster has recall > 0.5; otherwise
\* the verdict is PERFECT when the qualifying cluster holds all injected rows
\* and nothing else, else STRONG when its recall exceeds 0.8, else PASSABLE.
C6_VerdictPolicy ==
    inj_pc = "done" =>
        /\ report = "FAILURE" <=> Qualifying = {}
        /\ \A k \in Qualifying :
               report =
                   IF InjOf(k) = HiddenCount /\ SizeOf(k) = HiddenCount
                   THEN "PERFECT"
                   ELSE IF 10 * InjOf(k) > 8 * HiddenCount THEN "STRONG"
                   ELSE "PASSABLE"

C6_Witness ==
    /\ inj_pc = "done"
    /\ report = "STRONG"
    /\ best_cluster_id = 0
    /\ best_recall = <<17, HiddenCount>>

\* C7: for the same vectors, the run with the smaller threshold returns at
\* least as many clusters as the run with the larger threshold.
C7_ThresholdMonotone ==
    (ward_pc = "done" /\ threshold1 < threshold2) => count1 >= count2

C7_Witness ==
    /\ ward_pc = "done"
    /\ Len(vectors) = 3
    /\ count1 = 3
    /\ count2 = 2

\* C8 as claimed: a corpus of one message yields one cluster of size 1 and one
\* summary of size 1 and percentage 100.00, and the run does not fail.
C8_SingletonCase ==
    (Len(df) = 1 /\ pc \notin {"start", "loaded"}) =>
        /\ error = "none"
        /\ pc # "failed"
        /\ Len(clusters) = 1
        /\ Len(clusters[1].indices) = 1
        /\ pc \in {"summarized", "saved"} =>
               /\ Len(cluster_summaries) = 1
               /\ cluster_summaries[1].size = 1
               /\ cluster_summaries[1].percentage = 10000

\* C9 as claimed: on a cluster_output.json of an empty corpus (total_messages
\* = 0, no clusters) calculate_metrics runs to its end without raising.
C9_EmptyCorpusGuarded ==
    (eval_pc \in {"done", "failed"} /\ output_file.exists
        /\ output_file.content.total_messages = 0) =>
        /\ eval_pc = "done"
        /\ eval_error = "none"

\* C10 as claimed: once generate_reports (with its model set up) has stopped,
\* no exception has ended it, every cluster of the batch was either analysed
\* or logged as skipped, and both the CSV (one row per analysed cluster) and
\* the Markdown report are written.
C10_BatchNeverAborts ==
    llm_pc \in {"done", "failed"} =>
        /\ llm_error = "none"
        /\ Len(results) + Len(logged) = Len(llm_clusters)
        /\ csv_file.exists
        /\ Len(csv_file.content) = Len(results)
        /\ report_file.exists

\* C11 as claimed: with the corpus file missing, neither caller of
\* load_and_preprocess_data goes past its load: main returns before clustering
\* and run_injection_test does not merge, cluster or report on the injected
\* messages alone.
C11_MissingFileAborts ==
    /\ ~input_file.exists =>
           /\ pc \in {"idle", "start", "loaded", "returned"}
           /\ clusters = <<>>
           /\ ~output_file.exists
    /\ ~inj_file.exists =>
           /\ inj_pc \in {"idle", "start", "loaded"}
           /\ is_injected = <<>>
           /\ inj_clusters = <<>>
           /\ report = "none"

\* C12: the artifact written by main lists every message in exactly one
\* cluster size (the sizes add up to total_messages = n >= 1), and when the
\* evaluator computes coverage_ratio on it the value is exactly 100; the
\* division by total_messages never fails on it.
C12_FullCoverage ==
    /\ pc = "saved" =>
           /\ output_file.exists
           /\ output_file.content.total_messages = Len(df)
           /\ Len(df) >= 1
           /\ SumSizes(output_file.content.clusters) = Len(df)
    /\ eval_pc \in {"silhouette", "coverage", "done"} =>
           /\ pc = "saved"
           /\ total_messages = Len(df)
           /\ eval_clusters = cluster_summaries
    /\ eval_pc = "done" =>
           /\ total_clustered_volume = total_messages
           /\ coverage_ratio[1] = 100 * coverage_ratio[2]
           /\ coverage_ratio[2] = total_messages
    /\ eval_error # "ZeroDivisionError"

C12_Witness ==
    /\ pc = "saved"
    /\ eval_pc = "done"
    /\ Len(eval_clusters) = 2
    /\ total_messages = 3
    /\ total_clustered_volume = 3
    /\ coverage_ratio = <<300, 3>>

\* No two primaries share a name case-insensitively, and no primary has two
\* secondary intents with case-insensitively equal names.
MapUnique(mapper) ==
    /\ \A i, j \in DOMAIN mapper :
           Lower(mapper[i].primary_intent_name)
               = Lower(mapper[j].primary_intent_name) => i = j
    /\ \A k \in DOMAIN mapper :
           \A i, j \in DOMAIN mapper[k].secondary_intents :
               Lower(mapper[k].secondary_intents[i].name)
                   = Lower(mapper[k].secondary_intents[j].name) => i = j

\* Every primary of `before` is still at its place with its id and name, and
\* its secondary intents are still there, unchanged and in their places.
MapKeeps(before, after) ==
    /\ Len(after) >= Len(before)
    /\ \A k \in DOMAIN before :
           /\ after[k].primary_intent_id = before[k].primary_intent_id
           /\ after[k].primary_intent_name = before[k].primary_intent_name
           /\ Len(after[k].secondary_intents)
                  >= Len(before[k].secondary_intents)
           /\ SubSeq(after[k].secondary_intents, 1,
                     Len(before[k].secondary_intents))
                  = before[k].secondary_intents

\* C13: at every point of update_map the intent map keeps the uniqueness of
\* primary names and of each primary's secondary names (compared without
\* case), keeps every entry of the original map unchanged, and a second
\* call with the same changes leaves the map the first call returned as it
\* is.
C13_NoDuplicateIdempotent ==
    /\ MapUnique(intent_map)
    /\ MapKeeps(original_map, intent_map)
    /\ map_pc \in {"second", "done"} => intent_map = first_result

\* A new primary "b" was created by the first change with one secondary, and
\* the second change, a case or padding variant of the first, was skipped;
\* both calls have returned.
C13_Witness ==
    /\ map_pc = "done"
    /\ Len(changes) = 2
    /\ changes[1].Intent_Name # changes[2].Intent_Name
    /\ \A k \in 1..2 :
           /\ HasSeparator(changes[k].Intent_Name)
           /\ Lower(Strip(Split(changes[k].Intent_Name)[1])) = <<"b">>
           /\ Lower(Strip(Split(changes[k].Intent_Name)[2])) = <<"a">>
    /\ Len(original_map) = 1
    /\ original_map[1].primary_intent_name = <<"a">>
    /\ Len(intent_map) = 2
    /\ intent_map[2].primary_intent_name = <<"b">>
    /\ Len(intent_map[2].secondary_intents) = 1

====
